---- MODULE Spec2Model ----
(***************************************************************************)
(* Object-Extender: deep merge, clone and default-value resolution of      *)
(* plain objects (src/objectExtender.js).                                  *)
(*                                                                         *)
(* JavaScript objects and arrays live in a heap of cells so that reference *)
(* identity, aliasing and in-place mutation are visible.  A Value is a     *)
(* scalar (number, boolean, string, null, undefined) or a reference to a   *)
(* cell.  Every operation takes the heap and returns the new heap with the *)
(* value it produced: [h |-> heap, v |-> value].                           *)
(***************************************************************************)
EXTENDS Integers, Sequences, FiniteSets, TLC

VARIABLES
  heap,     \* Seq of cells; the address of a cell is its index
  args,     \* Seq of Values: the caller's arguments (objects)
  optArg,   \* Value: the options object handed to extend (Undef when none)
  listArg,  \* Value: the objects array handed to extend (Undef when none)
  op,       \* the call made: "idle" until an operation has run
  result,   \* Value returned by the call
  pre,      \* heap as it was when the call started
  chain     \* number of results fed back as the argument of a further call

vars == <<heap, args, optArg, listArg, op, result, pre, chain>>

---------------------------------------------------------------------------
(* Values *)

Num(n)  == [t |-> "number", v |-> n]
Bool(b) == [t |-> "boolean", v |-> b]
Str(s)  == [t |-> "string", v |-> s]
Null    == [t |-> "null", v |-> 0]
Undef   == [t |-> "undefined", v |-> 0]
Ref(a)  == [t |-> "ref", v |-> a]

Cell(kind, slots) == [kind |-> kind, slots |-> slots]

EmptyMap == [k \in {} |-> Undef]

\* Property enumeration order (insertion order is not observable in any result).
KeyOrder == <<"a", "b", "ignoreNull", "ignoreUndefined", "arrayBehaviour">>

KeySeq(S) == SelectSeq(KeyOrder, LAMBDA k : k \in S)

New(h, cell) == [h |-> Append(h, cell), v |-> Ref(Len(h) + 1)]

\* The type names of object-assign-deep's classification: "object", "array",
\* "null", "undefined", or the scalar's typeof.
getTypeOf(h, x) == IF x.t = "ref" THEN h[x.v].kind ELSE x.t

IsMapping(h, x)  == getTypeOf(h, x) = "object"
IsSequence(h, x) == getTypeOf(h, x) = "array"

Keys(h, x) == IF IsMapping(h, x) THEN DOMAIN h[x.v].slots ELSE {}

\* object[key]: undefined when the property does not exist.
Get(h, x, k) == IF k \in Keys(h, x) THEN h[x.v].slots[k] ELSE Undef

\* object[key] = val
SetProp(h, x, k, val) ==
  [h EXCEPT ![x.v].slots = [j \in (DOMAIN h[x.v].slots) \cup {k} |->
                               IF j = k THEN val ELSE h[x.v].slots[j]]]

\* delete object[key]
DeleteProp(h, x, k) ==
  [h EXCEPT ![x.v].slots = [j \in (DOMAIN h[x.v].slots) \ {k} |-> h[x.v].slots[j]]]

Truthy(x) ==
  CASE x.t = "boolean" -> x.v
    [] x.t = "number"  -> x.v # 0
    [] x.t = "string"  -> x.v # ""
    [] x.t = "ref"     -> TRUE
    [] OTHER           -> FALSE

---------------------------------------------------------------------------
(* Structural comparison and reachability *)

RECURSIVE DeepEq(_, _, _, _)
DeepEq(h1, x, h2, y) ==
  IF x.t # "ref" \/ y.t # "ref" THEN x.t = y.t /\ x.v = y.v
  ELSE LET c == h1[x.v]
           d == h2[y.v]
       IN  /\ c.kind = d.kind
           /\ DOMAIN c.slots = DOMAIN d.slots
           /\ \A k \in DOMAIN c.slots : DeepEq(h1, c.slots[k], h2, d.slots[k])

RECURSIVE Reach(_, _)
Reach(h, x) ==
  IF x.t # "ref" THEN {}
  ELSE {x.v} \cup UNION {Reach(h, h[x.v].slots[k]) : k \in DOMAIN h[x.v].slots}

---------------------------------------------------------------------------
(* The Merge Engine (object-assign-deep, required at objectExtender.js:243). *)
(* Its source is not part of the repository; it is modelled from spec.md     *)
(* section 4.2 (steps 2-6 and the multi-value fold).  Null/undefined         *)
(* suppression (step 1) is not an engine input: the calls in                 *)
(* objectExtender.js pass it arrayBehaviour only.                            *)

\* Step 6: a structural deep copy, fresh containers at every level.
RECURSIVE deepCopy(_, _), copyProps(_, _, _, _), copyElems(_, _, _, _)
deepCopy(h, x) ==
  IF x.t # "ref" THEN [h |-> h, v |-> x]
  ELSE LET wrap(r) == New(r.h, Cell(h[x.v].kind, r.v))
       IN  wrap(IF h[x.v].kind = "object"
                THEN copyProps(h, h[x.v].slots, KeySeq(DOMAIN h[x.v].slots), EmptyMap)
                ELSE copyElems(h, h[x.v].slots, 1, <<>>))

copyProps(h, slots, ks, acc) ==
  IF ks = <<>> THEN [h |-> h, v |-> acc]
  ELSE LET rest(r) == copyProps(r.h, slots, Tail(ks), acc @@ (Head(ks) :> r.v))
       IN  rest(deepCopy(h, slots[Head(ks)]))

copyElems(h, elems, i, acc) ==
  IF i > Len(elems) THEN [h |-> h, v |-> acc]
  ELSE LET rest(r) == copyElems(r.h, elems, i + 1, Append(acc, r.v))
       IN  rest(deepCopy(h, elems[i]))

\* Steps 2-5 for the values found at one key: left is the value merged so
\* far (Undef when the key is absent), right the later input's value.
RECURSIVE mergeValue(_, _, _, _), mergeProps(_, _, _, _, _, _)
mergeValue(h, left, right, behaviour) ==
  IF IsMapping(h, right) /\ IsMapping(h, left)
  THEN \* step 2: a new Mapping over the union of the keys
       LET wrap(r) == New(r.h, Cell("object", r.v))
       IN  wrap(mergeProps(h, left, right, behaviour,
                           KeySeq(Keys(h, left) \cup Keys(h, right)), EmptyMap))
  ELSE IF IsSequence(h, right) /\ IsSequence(h, left) /\ behaviour = "merge"
  THEN \* step 4, merge: left's elements followed by right's
       LET join(l, r) == New(r.h, Cell("array", l.v \o r.v))
           after(l)   == join(l, copyElems(l.h, h[right.v].slots, 1, <<>>))
       IN  after(copyElems(h, h[left.v].slots, 1, <<>>))
  ELSE \* steps 3, 4 (replace) and 5: the later value, deep-copied
       deepCopy(h, right)

mergeProps(h, left, right, behaviour, ks, acc) ==
  IF ks = <<>> THEN [h |-> h, v |-> acc]
  ELSE LET rest(r) == mergeProps(r.h, left, right, behaviour, Tail(ks),
                                 acc @@ (Head(ks) :> r.v))
       IN  rest(IF Head(ks) \in Keys(h, right)
                THEN mergeValue(h, Get(h, left, Head(ks)), Get(h, right, Head(ks)), behaviour)
                ELSE deepCopy(h, Get(h, left, Head(ks))))

\* The fold's step at the top level: a Mapping merged into the Mapping
\* accumulated so far is written into it in place, key by key (the
\* accumulator is the fresh seed or the mutation target); any other pair of
\* values follows steps 3-5.
RECURSIVE assignProps(_, _, _, _, _)
assignProps(h, out, right, behaviour, ks) ==
  IF ks = <<>> THEN [h |-> h, v |-> out]
  ELSE LET rest(r) == assignProps(SetProp(r.h, out, Head(ks), r.v), out, right,
                                  behaviour, Tail(ks))
       IN  rest(mergeValue(h, Get(h, out, Head(ks)), Get(h, right, Head(ks)), behaviour))

foldStep(h, left, right, behaviour) ==
  IF IsMapping(h, left) /\ IsMapping(h, right)
  THEN assignProps(h, left, right, behaviour, KeySeq(Keys(h, right)))
  ELSE mergeValue(h, left, right, behaviour)

\* Multi-value fold: left-to-right reduction of values from seed.
RECURSIVE fold(_, _, _, _)
fold(h, seed, values, behaviour) ==
  IF values = <<>> THEN [h |-> h, v |-> seed]
  ELSE LET rest(r) == fold(r.h, r.v, Tail(values), behaviour)
       IN  rest(foldStep(h, seed, Head(values), behaviour))

\* objectAssignDeep.noMutate(...objects): the fold from an empty Mapping.
noMutate(h, objects) ==
  LET from(t) == fold(t.h, t.v, objects, "replace")
  IN  from(New(h, Cell("object", EmptyMap)))

\* objectAssignDeep(target, ...objects): the fold from the target itself.
objectAssignDeep(h, target, objects) == fold(h, target, objects, "replace")

\* objectAssignDeep.withOptions(target, objects, {arrayBehaviour}).
withOptions(h, target, objects, arrayBehaviour) ==
  fold(h, target, objects,
       IF arrayBehaviour.t = "string" /\ arrayBehaviour.v = "merge" THEN "merge" ELSE "replace")

---------------------------------------------------------------------------
(* src/objectExtender.js, lines 236-370 *)

\* merge, were it to fold its inputs from the last to the first.
merge_firstWins(h, objects) ==
  noMutate(h, [i \in 1..Len(objects) |-> objects[Len(objects) + 1 - i]])

\* merge, were it to pass on its first two inputs only.
merge_firstTwo(h, objects) ==
  noMutate(h, SubSeq(objects, 1, IF Len(objects) < 2 THEN Len(objects) ELSE 2))

\* Mutant of merge: folds into the first input instead of a fresh Mapping.
merge_intoFirst(h, objects) == objectAssignDeep(h, Head(objects), Tail(objects))

\* merge(...objects)
merge(h, objects) == noMutate(h, objects)

\* Mutant of mergeInto: merges into a fresh Mapping and returns that.
mergeInto_fresh(h, target, objects) == noMutate(h, <<target>> \o objects)

\* mergeInto(target, ...objects)
mergeInto(h, target, objects) == objectAssignDeep(h, target, objects)

\* Mutant of clone: the object is not handed to the engine.
clone_nothing(h, object) == noMutate(h, <<>>)

\* clone(object)
clone(h, object) == noMutate(h, <<object>>)

\* Mutant of defaults: actualValues folded after readOnlyValues.
defaults_swapped(h, defaultValues, actualValues, readOnlyValues) ==
  LET call(ro) == noMutate(ro.h, <<defaultValues, ro.v, actualValues>>)
  IN  call(IF readOnlyValues.t = "undefined"
           THEN New(h, Cell("object", EmptyMap))
           ELSE [h |-> h, v |-> readOnlyValues])

\* defaults(defaultValues, actualValues, readOnlyValues = {}): the default
\* parameter applies when the argument is undefined.
defaults(h, defaultValues, actualValues, readOnlyValues) ==
  LET call(ro) == noMutate(ro.h, <<defaultValues, actualValues, ro.v>>)
  IN  call(IF readOnlyValues.t = "undefined"
           THEN New(h, Cell("object", EmptyMap))
           ELSE [h |-> h, v |-> readOnlyValues])

\* typeof x === `object` && !Array.isArray(x): true of null as well.
IsObjectNotArray(h, x) == x.t = "null" \/ IsMapping(h, x)

\* removeUndesirableProperties(object, options): mutates object; returns the
\* object only on the early exit, and nothing (undefined) after the loop.
RECURSIVE removeUndesirableProperties(_, _, _), removeEach(_, _, _, _)
removeUndesirableProperties(h, object, options) ==
  IF ~Truthy(Get(h, options, "ignoreNull")) /\ ~Truthy(Get(h, options, "ignoreUndefined"))
  THEN [h |-> h, v |-> object]
  ELSE [h |-> removeEach(h, object, options, KeySeq(Keys(h, object))), v |-> Undef]

\* The body of the for-in loop, for the keys still to visit.
removeEach(h, object, options, ks) ==
  IF ks = <<>> THEN h
  ELSE removeEach(
         IF IsObjectNotArray(h, Get(h, object, Head(ks)))
         THEN removeUndesirableProperties(h, Get(h, object, Head(ks)), options).h
         ELSE IF \/ /\ Get(h, object, Head(ks)).t = "undefined"
                    /\ Truthy(Get(h, options, "ignoreUndefined"))
                 \/ /\ Get(h, object, Head(ks)).t = "null"
                    /\ Truthy(Get(h, options, "ignoreNull"))
              THEN DeleteProp(h, object, Head(ks))
              ELSE h,
         object, options, Tail(ks))

\* Mutant of extendEach: the inputs themselves are tidied, not clones of them.
RECURSIVE extendEach_inPlace(_, _, _, _, _)
extendEach_inPlace(h, _objects, options, index, objects) ==
  IF index > Len(h[_objects.v].slots) THEN [h |-> h, v |-> objects]
  ELSE LET push(pushed) ==
             extendEach_inPlace(pushed.h, _objects, options, index + 1,
                                Append(objects, pushed.v))
           tidy(useOptions) ==
             push(removeUndesirableProperties(useOptions.h, h[_objects.v].slots[index],
                                              useOptions.v))
           first(o) == defaults(o.h, options, o.v, Undef)
       IN  tidy(IF index = 1
                THEN first(New(h, Cell("object", "ignoreNull" :> Bool(FALSE))))
                ELSE [h |-> h, v |-> options])

\* The loop of extend over _objects[index]; objects is the local array
\* being filled (index counts from 1 here).
RECURSIVE extendEach(_, _, _, _, _)
extendEach(h, _objects, options, index, objects) ==
  IF index > Len(h[_objects.v].slots) THEN [h |-> h, v |-> objects]
  ELSE LET push(pushed) ==
             extendEach(pushed.h, _objects, options, index + 1, Append(objects, pushed.v))
           tidy(clonedObject, useOptions) ==
             push(removeUndesirableProperties(clonedObject.h, clonedObject.v, useOptions))
           copy(useOptions) ==
             tidy(clone(useOptions.h, h[_objects.v].slots[index]), useOptions.v)
           first(o) == defaults(o.h, options, o.v, Undef)
       IN  copy(IF index = 1
                THEN first(New(h, Cell("object", "ignoreNull" :> Bool(FALSE))))
                ELSE [h |-> h, v |-> options])

\* extend(_objects, _options = {})
extend(h, _objects, _options) ==
  LET perform(objects, target, options) ==
        withOptions(objects.h, target, objects.v, Get(objects.h, options, "arrayBehaviour"))
      collect(target, options) ==
        perform(extendEach(target.h, _objects, options, 1, <<>>), target.v, options)
      seed(options) == collect(New(options.h, Cell("object", EmptyMap)), options.v)
      resolve(dflt, given) == seed(defaults(dflt.h, dflt.v, given, Undef))
      literal(given) ==
        resolve(New(given.h, Cell("object",
                    ("ignoreNull" :> Bool(TRUE)) @@ ("ignoreUndefined" :> Bool(TRUE))
                      @@ ("arrayBehaviour" :> Str("replace")))),
                given.v)
  IN  literal(IF _options.t = "undefined"
              THEN New(h, Cell("object", EmptyMap))
              ELSE [h |-> h, v |-> _options])

---------------------------------------------------------------------------
(* The earlier variants: src/objectExtender.js lines 1-235 and             *)
(* src/extender.js (smartExtend, deepExtend, copy, extend).                *)

\* ME.isTrueObject(input): an object that is no array and no function
\* (_.isObject is false of null).
ME_isTrueObject(h, input) == IsMapping(h, input)

\* ME.deepExtend(original, ...rest): writes into original and returns it.
RECURSIVE ME_deepExtend(_, _, _), deepExtendEach(_, _, _, _)
ME_deepExtend(h, original, rest) ==
  IF rest = <<>> THEN [h |-> h, v |-> original]
  ELSE ME_deepExtend(
         deepExtendEach(h, original, Head(rest), KeySeq(Keys(h, Head(rest)))),
         original, Tail(rest))

\* The loop over the properties p of one argument; gives the heap.
deepExtendEach(h, original, arg, ks) ==
  IF ks = <<>> THEN h
  ELSE deepExtendEach(
         IF /\ ME_isTrueObject(h, Get(h, arg, Head(ks)))
            /\ ME_isTrueObject(h, Get(h, original, Head(ks)))
         THEN \* original[p] = ME.deepExtend(original[p], args[a][p])
              SetProp(ME_deepExtend(h, Get(h, original, Head(ks)),
                                    <<Get(h, arg, Head(ks))>>).h,
                      original, Head(ks), Get(h, original, Head(ks)))
         ELSE \* original[p] = args[a][p]
              SetProp(h, original, Head(ks), Get(h, arg, Head(ks))),
         original, arg, Tail(ks))

\* _.extend(destination, ...sources) of underscore: every property of each
\* source is assigned to destination, which is returned.
RECURSIVE shallowExtend(_, _, _), shallowExtendEach(_, _, _, _)
shallowExtend(h, destination, sources) ==
  IF sources = <<>> THEN [h |-> h, v |-> destination]
  ELSE shallowExtend(
         shallowExtendEach(h, destination, Head(sources), KeySeq(Keys(h, Head(sources)))),
         destination, Tail(sources))

shallowExtendEach(h, destination, source, ks) ==
  IF ks = <<>> THEN h
  ELSE shallowExtendEach(SetProp(h, destination, Head(ks), Get(h, source, Head(ks))),
                         destination, source, Tail(ks))

\* The loop of smartExtend that deletes undefined and null properties from
\* objects[o], o from startIndex on (o counts from 1 here); gives the heap.
RECURSIVE stripEach(_, _, _, _, _), stripProps(_, _, _, _, _)
stripEach(h, objects, o, ignoreNull, ignoreUndefined) ==
  IF o > Len(objects) THEN h
  ELSE stripEach(
         stripProps(h, objects[o], KeySeq(Keys(h, objects[o])), ignoreNull, ignoreUndefined),
         objects, o + 1, ignoreNull, ignoreUndefined)

stripProps(h, object, ks, ignoreNull, ignoreUndefined) ==
  IF ks = <<>> THEN h
  ELSE stripProps(
         IF \/ Get(h, object, Head(ks)).t = "undefined" /\ ignoreUndefined
            \/ Get(h, object, Head(ks)).t = "null" /\ ignoreNull
         THEN DeleteProp(h, object, Head(ks))
         ELSE h,
         object, Tail(ks), ignoreNull, ignoreUndefined)

\* ME.smartExtend(options); o is the record of options after the defaults
\* are filled in: objects, deep, ignoreNull, ignoreUndefined, unref.
ME_smartExtend(h, o) ==
  LET extendAll(hs, objects) ==
        IF o.deep THEN ME_deepExtend(hs, Head(objects), Tail(objects))
        ELSE shallowExtend(hs, Head(objects), Tail(objects))
      strip(hs, objects, startIndex) ==
        extendAll(stripEach(hs, objects, startIndex + 1, o.ignoreNull, o.ignoreUndefined),
                  objects)
      unshift(e) == strip(e.h, <<e.v>> \o o.objects, 2)
  IN  IF o.unref
      THEN unshift(New(h, Cell("object", EmptyMap)))
      ELSE strip(h, o.objects, 1)

\* ME.extend(...) / ME.extend(deep, ...): ignoreNull and unref are true;
\* ignoreUndefined is true in objectExtender.js and missing in extender.js.
ME_extend(h, deepExtend, objects, ignoreUndefined) ==
  ME_smartExtend(h, [objects |-> objects, deep |-> deepExtend, ignoreNull |-> TRUE,
                     ignoreUndefined |-> ignoreUndefined, unref |-> TRUE])

\* ME.copy(object)
ME_copy(h, object) ==
  ME_smartExtend(h, [objects |-> <<object>>, deep |-> TRUE, ignoreNull |-> FALSE,
                     ignoreUndefined |-> FALSE, unref |-> TRUE])

---------------------------------------------------------------------------
(* The caller: object literals handed to the operations *)

MaxNum == 2     \* numbers 1..MaxNum appear in the inputs
MaxLen == 1     \* longest array literal
MaxChain == 1   \* results fed back as the argument of a further call

\* The widest fixed signature, defaults(defaultValues, actualValues,
\* readOnlyValues); the variadic operations are called with as many.
Arity == Len(<<"defaultValues", "actualValues", "readOnlyValues">>)

Obj(f) == [t |-> "object", v |-> f]
Arr(s) == [t |-> "array", v |-> s]

Scalars == {Num(n) : n \in 1..MaxNum} \cup {Null, Undef}

RECURSIVE SeqsUpTo(_, _)
SeqsUpTo(S, n) ==
  IF n = 0 THEN {<<>>}
  ELSE LET shorter == SeqsUpTo(S, n - 1)
       IN  shorter \cup {Append(q, x) : q \in {r \in shorter : Len(r) = n - 1}, x \in S}

\* Values found at a key of an input: scalars, nested Mappings (up to two
\* levels down) and Sequences (of scalars and Mappings).
ArrayLiterals == {Arr(q) : q \in SeqsUpTo({Num(1), Obj("a" :> Num(1))}, MaxLen)}

NestedLiterals ==
  {Obj(EmptyMap), Obj("b" :> Num(1))}
    \cup {Obj("a" :> x) : x \in Scalars}
    \cup {Obj("a" :> Obj("a" :> x)) : x \in {Num(1), Undef}}

\* Top-level Mappings: key "a" holds any of the values above, or is missing;
\* a second key "b" appears beside scalar values of "a".
Inputs ==
  {Obj(EmptyMap)}
    \cup {Obj("a" :> x) : x \in Scalars \cup NestedLiterals \cup ArrayLiterals}
    \cup {Obj("b" :> Num(1))}
    \cup {Obj(("a" :> x) @@ ("b" :> Num(1))) : x \in Scalars}

\* Arguments after the second: Mappings of scalars, and one nested Mapping.
SmallInputs ==
  {Obj(EmptyMap), Obj("a" :> Obj("b" :> Num(1)))} \cup {Obj("a" :> x) : x \in Scalars}

\* Values that are not Mappings, cloned on their own.
BareValues == Scalars \cup ArrayLiterals

\* Options objects: each option left out or set away from its default.
OptionLiterals ==
  {Undef} \cup
  {Obj([k \in ks |-> IF k = "arrayBehaviour" THEN Str("merge") ELSE Bool(FALSE)]) :
     ks \in SUBSET {"ignoreNull", "ignoreUndefined", "arrayBehaviour"}}

\* Evaluating a literal: allocates its cells, innermost first.
RECURSIVE Alloc(_, _), AllocProps(_, _, _, _), AllocElems(_, _, _, _)
Alloc(h, lit) ==
  IF lit.t \notin {"object", "array"} THEN [h |-> h, v |-> lit]
  ELSE LET wrap(r) == New(r.h, Cell(lit.t, r.v))
       IN  wrap(IF lit.t = "object"
                THEN AllocProps(h, lit.v, KeySeq(DOMAIN lit.v), EmptyMap)
                ELSE AllocElems(h, lit.v, 1, <<>>))

AllocProps(h, f, ks, acc) ==
  IF ks = <<>> THEN [h |-> h, v |-> acc]
  ELSE LET rest(r) == AllocProps(r.h, f, Tail(ks), acc @@ (Head(ks) :> r.v))
       IN  rest(Alloc(h, f[Head(ks)]))

AllocElems(h, q, i, acc) ==
  IF i > Len(q) THEN [h |-> h, v |-> acc]
  ELSE LET rest(r) == AllocElems(r.h, q, i + 1, Append(acc, r.v))
       IN  rest(Alloc(h, q[i]))

AllMappings(h, xs) == \A i \in 1..Len(xs) : IsMapping(h, xs[i])

---------------------------------------------------------------------------
(* The calls *)

Init ==
  /\ heap = <<>>
  /\ args = <<>>
  /\ optArg = Undef
  /\ listArg = Undef
  /\ op = "idle"
  /\ result = Undef
  /\ pre = <<>>
  /\ chain = 0

\* The caller builds another argument.
Supply ==
  /\ op = "idle"
  /\ chain = 0
  /\ Len(args) < Arity
  /\ AllMappings(heap, args)
  /\ \E lit \in (IF Len(args) = 0 THEN Inputs \cup BareValues
                 ELSE IF Len(args) = 1 THEN Inputs ELSE SmallInputs) :
     \E r \in {Alloc(heap, lit)} :
       /\ heap' = r.h
       /\ args' = Append(args, r.v)
  /\ UNCHANGED <<optArg, listArg, op, result, pre, chain>>

\* extend([...args], options): the array and the options object are built
\* by the call expression.
CallExtend ==
  /\ op = "idle"
  /\ Len(args) >= 1
  /\ AllMappings(heap, args)
  /\ \E lit \in OptionLiterals :
     \E l \in {New(heap, Cell("array", args))} :
     \E o \in {Alloc(l.h, lit)} :
       /\ listArg' = l.v
       /\ optArg' = o.v
       /\ pre' = o.h
  /\ \E r \in {extend(pre', listArg', optArg')} :
       /\ heap' = r.h
       /\ result' = r.v
  /\ op' = "extend"
  /\ UNCHANGED <<args, chain>>

\* merge(...args)
CallMerge ==
  /\ op = "idle"
  /\ Len(args) >= 1
  /\ \E r \in {merge(heap, args)} :
       /\ heap' = r.h
       /\ result' = r.v
  /\ pre' = heap
  /\ op' = "merge"
  /\ UNCHANGED <<args, optArg, listArg, chain>>

\* mergeInto(args[1], ...rest)
CallMergeInto ==
  /\ op = "idle"
  /\ Len(args) >= 1
  /\ AllMappings(heap, args)
  /\ \E r \in {mergeInto(heap, Head(args), Tail(args))} :
       /\ heap' = r.h
       /\ result' = r.v
  /\ pre' = heap
  /\ op' = "mergeInto"
  /\ UNCHANGED <<args, optArg, listArg, chain>>

\* clone(args[1])
CallClone ==
  /\ op = "idle"
  /\ Len(args) = 1
  /\ \E r \in {clone(heap, args[1])} :
       /\ heap' = r.h
       /\ result' = r.v
  /\ pre' = heap
  /\ op' = "clone"
  /\ UNCHANGED <<args, optArg, listArg, chain>>

\* defaults(args[1], args[2]) or defaults(args[1], args[2], args[3])
CallDefaults ==
  /\ op = "idle"
  /\ Len(args) >= 2
  /\ AllMappings(heap, args)
  /\ \E r \in {defaults(heap, args[1], args[2], IF Len(args) = 3 THEN args[3] ELSE Undef)} :
       /\ heap' = r.h
       /\ result' = r.v
  /\ pre' = heap
  /\ op' = "defaults"
  /\ UNCHANGED <<args, optArg, listArg, chain>>

\* Earlier variant: extend(...args) or extend(true, ...args), of
\* objectExtender.js (undefined ignored too) or of extender.js.
CallEarlierExtend ==
  /\ op = "idle"
  /\ Len(args) >= 1
  /\ AllMappings(heap, args)
  /\ \E deepExtend \in BOOLEAN, ignoreUndefined \in BOOLEAN :
     \E r \in {ME_extend(heap, deepExtend, args, ignoreUndefined)} :
       /\ heap' = r.h
       /\ result' = r.v
       /\ op' = IF deepExtend THEN "ME.extend(true)" ELSE "ME.extend"
  /\ pre' = heap
  /\ UNCHANGED <<args, optArg, listArg, chain>>

\* Earlier variant: copy(args[1])
CallCopy ==
  /\ op = "idle"
  /\ Len(args) = 1
  /\ AllMappings(heap, args)
  /\ \E r \in {ME_copy(heap, args[1])} :
       /\ heap' = r.h
       /\ result' = r.v
  /\ pre' = heap
  /\ op' = "ME.copy"
  /\ UNCHANGED <<args, optArg, listArg, chain>>

\* removeUndesirableProperties(clone, options), the step extend takes for
\* each input: args[1] is the clone, the options are those extend resolved.
CallRemove ==
  /\ op = "idle"
  /\ Len(args) = 1
  /\ chain > 0
  /\ AllMappings(heap, args)
  /\ \E ignoreNull \in BOOLEAN, ignoreUndefined \in BOOLEAN :
     \E o \in {New(heap, Cell("object",
                   ("ignoreNull" :> Bool(ignoreNull))
                     @@ ("ignoreUndefined" :> Bool(ignoreUndefined))
                     @@ ("arrayBehaviour" :> Str("replace"))))} :
     \E r \in {removeUndesirableProperties(o.h, args[1], o.v)} :
       /\ optArg' = o.v
       /\ pre' = o.h
       /\ heap' = r.h
       /\ result' = r.v
  /\ op' = "removeUndesirableProperties"
  /\ UNCHANGED <<args, listArg, chain>>

\* The caller passes a clone on as the argument of its next call.
Feed ==
  /\ op = "clone"
  /\ chain < MaxChain
  /\ args' = <<result>>
  /\ op' = "idle"
  /\ chain' = chain + 1
  /\ UNCHANGED <<heap, optArg, listArg, result, pre>>

Next ==
  \/ Supply
  \/ CallExtend
  \/ CallMerge
  \/ CallMergeInto
  \/ CallClone
  \/ CallDefaults
  \/ CallEarlierExtend
  \/ CallCopy
  \/ CallRemove
  \/ Feed

Spec == Init /\ [][Next]_vars

---------------------------------------------------------------------------
(* Properties *)

TopKeys == {"a", "b"}

Holds(i, k) == k \in Keys(pre, args[i])
Val(i, k)   == Get(pre, args[i], k)

IsNullish(x) == x.t \in {"null", "undefined"}
IsScalar(x)  == x.t # "ref"
SameScalar(x, y) == x.t = y.t /\ x.v = y.v

Max(S) == CHOOSE m \in S : \A n \in S : n <= m

\* The options of the extend call, as the caller wrote them.
GivenOptions == IF optArg.t = "undefined" THEN {} ELSE Keys(pre, optArg)

\* Everything reachable from the arguments numbered in I, before or after the call.
ReachArgs(I) == UNION {Reach(pre, args[i]) \cup Reach(heap, args[i]) : i \in I}

\* C1: extend with default options: an input other than the first that holds
\* null or undefined at key k contributes nothing at k; result[k] is the value
\* of the last input that does contribute, and k is absent from the result
\* when no input contributes.
C1_Contributors(k) ==
  {i \in 1..Len(args) : Holds(i, k) /\ (i = 1 \/ ~IsNullish(Val(i, k)))}

C1_NullSuppression ==
  ( /\ op = "extend"
    /\ GivenOptions = {}
    /\ \E i \in 2..Len(args), k \in TopKeys : Holds(i, k) /\ IsNullish(Val(i, k)) )
  => \A k \in TopKeys :
       IF C1_Contributors(k) = {}
       THEN k \notin Keys(heap, result)
       ELSE /\ k \in Keys(heap, result)
            /\ IsScalar(Val(Max(C1_Contributors(k)), k))
                 => SameScalar(Get(heap, result, k), Val(Max(C1_Contributors(k)), k))

\* C2: extend with {ignoreNull: false} and nothing else: a null held by a later
\* input at key k overwrites the earlier value at k (undefined is still
\* ignored), and the other keys of all the inputs are merged.
C2_Contributors(k) ==
  {i \in 1..Len(args) : Holds(i, k) /\ (i = 1 \/ Val(i, k).t # "undefined")}

C2_NullOverwrites ==
  ( /\ op = "extend"
    /\ GivenOptions = {"ignoreNull"}
    /\ \E i \in 2..Len(args), k \in TopKeys : Holds(i, k) /\ Val(i, k).t = "null" )
  => \A k \in TopKeys :
       IF C2_Contributors(k) = {}
       THEN k \notin Keys(heap, result)
       ELSE /\ k \in Keys(heap, result)
            /\ IsScalar(Val(Max(C2_Contributors(k)), k))
                 => SameScalar(Get(heap, result, k), Val(Max(C2_Contributors(k)), k))

\* C3: extend of two inputs that hold Sequences at the same key: under the
\* default policy the result holds a copy of the later Sequence, under
\* arrayBehaviour 'merge' the earlier elements followed by the later ones.
C3_Expected ==
  IF "arrayBehaviour" \in GivenOptions
  THEN pre[Val(1, "a").v].slots \o pre[Val(2, "a").v].slots
  ELSE pre[Val(2, "a").v].slots

C3_SequencePolicy ==
  ( /\ op = "extend"
    /\ Len(args) = 2
    /\ GivenOptions \subseteq {"arrayBehaviour"}
    /\ IsSequence(pre, Val(1, "a"))
    /\ IsSequence(pre, Val(2, "a")) )
  => /\ IsSequence(heap, Get(heap, result, "a"))
     /\ LET out == heap[Get(heap, result, "a").v].slots
        IN  /\ Len(out) = Len(C3_Expected)
            /\ \A j \in 1..Len(out) : DeepEq(heap, out[j], pre, C3_Expected[j])

\* C4: no Mapping or Sequence reachable from the value returned by merge,
\* clone, defaults or extend is one reachable from an input (the objects
\* array and the options object included); for mergeInto, none is one
\* reachable from an input other than the target.
C4_NoAliasing ==
  /\ op \in {"merge", "clone", "defaults"}
       => Reach(heap, result) \cap ReachArgs(1..Len(args)) = {}
  /\ op = "extend"
       => Reach(heap, result) \cap
            (ReachArgs(1..Len(args)) \cup Reach(pre, listArg) \cup Reach(pre, optArg)) = {}
  /\ op = "mergeInto"
       => Reach(heap, result) \cap ReachArgs(2..Len(args)) = {}

\* merge of two inputs has returned a Mapping that holds a Sequence holding a
\* Mapping, as the second input does.
C4_Witness ==
  /\ op = "merge"
  /\ Len(args) = 2
  /\ Cardinality(Reach(pre, args[2])) = 3
  /\ Cardinality(Reach(heap, result)) = 3

\* C5: extend leaves the objects array, every input Mapping at every depth
\* and the options object as they were before the call.
C5_ExtendFrame ==
  op = "extend"
  => /\ DeepEq(pre, listArg, heap, listArg)
     /\ DeepEq(pre, optArg, heap, optArg)
     /\ \A i \in 1..Len(args) : DeepEq(pre, args[i], heap, args[i])

\* extend has run with ignoreUndefined in force on an input holding an
\* undefined property, at the top or inside a nested Mapping.
C5_Witness ==
  /\ op = "extend"
  /\ "ignoreUndefined" \notin GivenOptions
  /\ \E i \in 1..Len(args) : Val(i, "a").t = "undefined" /\ Holds(i, "a")
  /\ \E i \in 1..Len(args) :
       IsMapping(pre, Val(i, "a")) /\ "a" \in Keys(pre, Val(i, "a"))
         /\ Get(pre, Val(i, "a"), "a").t = "undefined"

\* C6: mergeInto returns the target itself, leaves the target deep-equal to
\* merge(target as it was, ...objects), and leaves every other input as it was.
C6_MergeInto ==
  op = "mergeInto"
  => /\ result = args[1]
     /\ LET m == merge(pre, args) IN DeepEq(heap, args[1], m.h, m.v)
     /\ \A i \in 2..Len(args) : DeepEq(pre, args[i], heap, args[i])

\* mergeInto has written a key of a later input into the target.
C6_Witness ==
  /\ op = "mergeInto"
  /\ Len(args) >= 2
  /\ \E k \in TopKeys : Holds(2, k) /\ ~Holds(1, k) /\ k \in Keys(heap, args[1])

\* C7: clone(x) deep-equals x; cloning the clone again gives a value that
\* deep-equals the clone.
C7_CloneEqual == op = "clone" => DeepEq(pre, args[1], heap, result)

\* The clone of a Mapping holding null or undefined has itself been cloned.
C7_Witness ==
  /\ op = "clone"
  /\ chain = 1
  /\ IsMapping(heap, result)
  /\ IsNullish(Get(heap, result, "a"))
  /\ "a" \in Keys(heap, result)

\* C8: defaults: the result has the keys of all the arguments; where the last
\* argument that has a key holds a scalar there, the result holds that scalar
\* (readOnlyValues over actualValues over defaultValues); with readOnlyValues
\* left out the result is what an empty Mapping in its place gives.
C8_LastHolder(k) == Max({i \in 1..Len(args) : Holds(i, k)})

C8_Precedence ==
  op = "defaults"
  => /\ Keys(heap, result) = UNION {Keys(pre, args[i]) : i \in 1..Len(args)}
     /\ \A k \in Keys(heap, result) :
          IsScalar(Val(C8_LastHolder(k), k))
            => SameScalar(Get(heap, result, k), Val(C8_LastHolder(k), k))
     /\ Len(args) = 2
          => LET e == New(pre, Cell("object", EmptyMap))
                 d == defaults(e.h, args[1], args[2], e.v)
             IN  DeepEq(heap, result, d.h, d.v)

\* defaults has resolved a key that all three arguments hold, with different
\* scalars in actualValues and readOnlyValues.
C8_Witness ==
  /\ op = "defaults"
  /\ Len(args) = 3
  /\ \A i \in 1..3 : Holds(i, "a") /\ IsScalar(Val(i, "a"))
  /\ ~SameScalar(Val(2, "a"), Val(3, "a"))
  /\ ~SameScalar(Val(1, "a"), Val(2, "a"))

\* C9: defaults ignores undefined and not null: a key held as undefined by
\* actualValues or readOnlyValues keeps the value of the last argument that
\* holds something else for it (null included).
C9_Contributors(k) ==
  {i \in 1..Len(args) : Holds(i, k) /\ (i = 1 \/ Val(i, k).t # "undefined")}

C9_DefaultsIgnoreUndefined ==
  op = "defaults"
  => \A k \in TopKeys :
       ( /\ \E i \in 2..Len(args) : Holds(i, k) /\ Val(i, k).t = "undefined"
         /\ C9_Contributors(k) # {}
         /\ IsScalar(Val(Max(C9_Contributors(k)), k)) )
       => /\ k \in Keys(heap, result)
          /\ SameScalar(Get(heap, result, k), Val(Max(C9_Contributors(k)), k))

\* C10: extend with default options: a key of the first input whose value is
\* null or undefined is in the result with that value, unless a later input
\* holds a value other than null and undefined for it.
C10_FirstInputExempt ==
  (op = "extend" /\ GivenOptions = {})
  => \A k \in TopKeys :
       ( /\ Holds(1, k)
         /\ IsNullish(Val(1, k))
         /\ \A i \in 2..Len(args) : Holds(i, k) => IsNullish(Val(i, k)) )
       => /\ k \in Keys(heap, result)
          /\ SameScalar(Get(heap, result, k), Val(1, k))

\* C11: earlier variant, extend with unref true, deep false or true: after
\* the call every object the caller supplied is deep-equal, at every depth,
\* to what it was before the call.
C11_InputsUnmodified ==
  op \in {"ME.extend", "ME.extend(true)"}
    => \A i \in 1..Len(args) : DeepEq(pre, args[i], heap, args[i])

\* C12: earlier variant, copy(object): the result deep-equals the input and
\* no Mapping reachable from the result is a Mapping reachable from the input.
C12_Mappings(h, x) == {c \in Reach(h, x) : h[c].kind = "object"}

C12_CleanCopy ==
  op = "ME.copy"
    => /\ DeepEq(pre, args[1], heap, result)
       /\ C12_Mappings(heap, result) \cap C12_Mappings(heap, args[1]) = {}

\* C13: merge(a, b) of two Mappings: the result's keys are the keys of a and
\* of b; where both hold a Mapping at k the result at k is the merge of the
\* two; where b holds k otherwise the result at k equals b's value, a fresh
\* deep copy when that is a Mapping; a key of a alone keeps a's value.
RECURSIVE C13_Merged(_, _, _)
C13_Merged(r, a, b) ==
  /\ IsMapping(heap, r)
  /\ Keys(heap, r) = Keys(pre, a) \cup Keys(pre, b)
  /\ \A k \in Keys(heap, r) :
       IF /\ k \in Keys(pre, a) \cap Keys(pre, b)
          /\ IsMapping(pre, Get(pre, a, k))
          /\ IsMapping(pre, Get(pre, b, k))
       THEN C13_Merged(Get(heap, r, k), Get(pre, a, k), Get(pre, b, k))
       ELSE IF k \in Keys(pre, b)
       THEN /\ DeepEq(heap, Get(heap, r, k), pre, Get(pre, b, k))
            /\ Reach(heap, Get(heap, r, k)) \cap Reach(pre, Get(pre, b, k)) = {}
       ELSE DeepEq(heap, Get(heap, r, k), pre, Get(pre, a, k))

C13_MergeOfTwo ==
  (op = "merge" /\ Len(args) = 2 /\ AllMappings(pre, args))
    => C13_Merged(result, args[1], args[2])

\* merge of {a: {b: 1}} and {a: {a: ...}} has given a Mapping whose Mapping
\* at a has both keys.
C13_Witness ==
  /\ op = "merge"
  /\ Len(args) = 2
  /\ AllMappings(pre, args)
  /\ IsMapping(pre, Get(pre, args[1], "a"))
  /\ Keys(pre, Get(pre, args[1], "a")) = {"b"}
  /\ IsMapping(pre, Get(pre, args[2], "a"))
  /\ Keys(pre, Get(pre, args[2], "a")) = {"a"}
  /\ Keys(heap, Get(heap, result, "a")) = {"a", "b"}

\* C14: the fold over several values is a pairwise reduction from the left:
\* merge(a, b, c) deep-equals merge(merge(a, b), c), and merge(a) deep-equals
\* clone(a).
C14_PairwiseFold ==
  /\ (op = "merge" /\ Len(args) = 3 /\ AllMappings(pre, args))
       => LET ab  == merge(pre, <<args[1], args[2]>>)
              abc == merge(ab.h, <<ab.v, args[3]>>)
          IN  DeepEq(heap, result, abc.h, abc.v)
  /\ (op = "merge" /\ Len(args) = 1 /\ AllMappings(pre, args))
       => LET c == clone(pre, args[1])
          IN  DeepEq(heap, result, c.h, c.v)

\* merge of three Mappings has run where the first holds a scalar at a, the
\* second a Mapping and the third a Mapping again, and the result holds a
\* Mapping with the keys of both.
C14_Witness ==
  /\ op = "merge"
  /\ Len(args) = 3
  /\ IsScalar(Get(pre, args[1], "a"))
  /\ IsMapping(pre, Get(pre, args[2], "a"))
  /\ IsMapping(pre, Get(pre, args[3], "a"))
  /\ Keys(heap, Get(heap, result, "a")) = {"a", "b"}

\* C15: removeUndesirableProperties(object, options) with ignoreNull and
\* ignoreUndefined both true: afterwards no own property of the object, or of
\* a Mapping nested in it (the contents of Sequences left aside), is null or
\* undefined, and every property that held another value is in place as it
\* was.
RECURSIVE C15_Clean(_), C15_Kept(_)
C15_Clean(x) ==
  \A k \in Keys(heap, x) :
    /\ ~IsNullish(Get(heap, x, k))
    /\ IsMapping(heap, Get(heap, x, k)) => C15_Clean(Get(heap, x, k))

C15_Kept(x) ==
  \A k \in Keys(pre, x) :
    ~IsNullish(Get(pre, x, k))
      => /\ k \in Keys(heap, x)
         /\ IF IsMapping(pre, Get(pre, x, k))
            THEN /\ Get(heap, x, k) = Get(pre, x, k)
                 /\ C15_Kept(Get(pre, x, k))
            ELSE DeepEq(pre, Get(pre, x, k), heap, Get(heap, x, k))

C15_RemovesNullAndUndefined ==
  (/\ op = "removeUndesirableProperties"
   /\ Truthy(Get(pre, optArg, "ignoreNull"))
   /\ Truthy(Get(pre, optArg, "ignoreUndefined")))
    => C15_Clean(args[1]) /\ C15_Kept(args[1])

====
